---- MODULE Spec2Model ----
(***************************************************************************)
(* The backend's authorization middleware (backend/src/middleware/auth,    *)
(* kept in src/backend/src/index.ts from line 141 on) and the organisation *)
(* routes that mount it (src/backend/src/routes/organisations.ts).         *)
(*                                                                         *)
(* Optional JavaScript values (string | undefined) are sets of at most one *)
(* string: {} is undefined, {"A"} is the string "A", {""} the empty        *)
(* string.  Arrays that the code only searches (includes, some) are sets.  *)
(* Permission strings are real strings, built by concatenation as the      *)
(* template literals of checkPermission build them.                        *)
(*                                                                         *)
(* The AuthService behind the auth routes (src/unnamed/part_003): login    *)
(* with its lockout, refreshToken and logout over one users row and the    *)
(* sessions table.  Time is in seconds.  A login is a sequence of steps,   *)
(* one per statement that reads or writes the database, so that two logins *)
(* overlap as their awaits allow; hist records what the calls returned.    *)
(***************************************************************************)
EXTENDS Integers, Sequences, FiniteSets, TLC

VARIABLES
    evalArgs,   \* arguments of one direct call of checkPermission
    evalRet,    \* its outcome: "idle", "pending", "grant", "deny" or "throw"
    req,        \* the express Request: headers, user, params, body
    res,        \* the express Response: responses sent, status, code, message
    authSvc,    \* what authService answers for the request's bearer token
    stack,      \* the middleware mounted on the matched route, in order
    pc,         \* index in stack of the middleware to run next, 0 when none
    log,        \* what each middleware that ran did
    other,      \* a second request in flight, waiting for the event loop
    db,         \* the users row of one account and the sessions table
    now,        \* the clock, in seconds
    calls,      \* the AuthService calls in flight, each at one of its awaits
    hist,       \* what the finished AuthService calls did and returned
    rateLimitCache, \* the rate limiter's Map: user id -> window state
    clock,      \* Date.now() in the browser, in milliseconds
    user_credits,   \* the user_credits row of the signed-in user
    consumers,  \* the consumeCredit calls in flight, each at one of its awaits
    cliHist,    \* what the client's calls returned
    friend_requests, \* the rows of public.friend_requests
    friends,    \* the rows of public.friends
    sqlRet      \* the last call of a friend-request function and its result

vars == <<evalArgs, evalRet, req, res, authSvc, stack, pc, log,
          other, db, now, calls, hist,
          rateLimitCache, clock, user_credits, consumers, cliHist,
          friend_requests, friends, sqlRet>>

\* the AuthService's state: nothing in the middleware reads or writes it
svcVars == <<db, now, calls, hist>>

\* the browser's hook state and the user_credits row behind it
clientVars == <<rateLimitCache, clock, user_credits, consumers, cliHist>>

\* the friends tables of the database
friendVars == <<friend_requests, friends, sqlRet>>

\* what the backend never touches
offBackend == <<clientVars, friendVars>>

-----------------------------------------------------------------------------
(* Bounds *)

\* most permission strings one user holds
MaxPerms == 2
\* most PermissionChecks handed to one authorize(...)
MaxRequired == 2

-----------------------------------------------------------------------------
(* Values *)

Undefined == {}

Some(s) == {s}

\* JavaScript truthiness of an optional string: undefined and "" are falsy
Truthy(v) == v # {} /\ v # {""}

\* b || a: the operands of || exchanged
OrElse_BodyFirst(a, b) == IF Truthy(b) THEN b ELSE a

\* a || b on optional strings
OrElse(a, b) == IF Truthy(a) THEN a ELSE b

OrgIds == {"A", "B"}

OptOrgIds == {Undefined} \cup {Some(o) : o \in OrgIds}

UserIds == {"u1", "u2"}

RoleNames == {"ADMIN", "SYSTEM_ADMIN", "TEACHER", "admin"}

Roles == {[name |-> n] : n \in RoleNames}

Resources == {"organisation", "user"}

Actions == {"view", "invite"}

\* `${resource}.${action}`
PermString(resource, action) == resource \o "." \o action

\* permission strings a user may hold: well-formed ones, wildcards, and
\* malformed ones (trailing whitespace, missing dot)
PermUniverse ==
    { "organisation.view", "organisation.manage", "user.invite",
      "organisation.*", "*.view", "*.*",
      "organisation.view ", "organisationview" }

PermSets == {P \in SUBSET PermUniverse : Cardinality(P) <= MaxPerms}

RoleSets == SUBSET Roles

PermissionChecks ==
    [resource : Resources, action : Actions, organisationId : OptOrgIds]

-----------------------------------------------------------------------------
(* checkPermission *)

\* Array.every where the code has Array.some
hasAdminRole_Every(userRoles) ==
    \A role \in userRoles : role.name = "ADMIN" \/ role.name = "SYSTEM_ADMIN"

hasAdminRole(userRoles) ==
    \E role \in userRoles : role.name = "ADMIN" \/ role.name = "SYSTEM_ADMIN"

\* checkPermission without the "*.<action>" wildcard
checkPermission_NoActionWildcard(required, userPermissions, userRoles, userOrgId) ==
    \/ PermString(required.resource, required.action) \in userPermissions
    \/ PermString(required.resource, "*") \in userPermissions
    \/ "*.*" \in userPermissions
    \/ hasAdminRole(userRoles)

\* checkPermission with the organisation comparison made before the role bypass
checkPermission_OrgBeforeAdmin(required, userPermissions, userRoles, userOrgId) ==
    IF \/ PermString(required.resource, required.action) \in userPermissions
       \/ PermString(required.resource, "*") \in userPermissions
       \/ PermString("*", required.action) \in userPermissions
       \/ "*.*" \in userPermissions
    THEN TRUE
    ELSE IF Truthy(required.organisationId) /\ userOrgId # required.organisationId
    THEN FALSE
    ELSE hasAdminRole(userRoles)

\* checkPermission with the organisation comparison made first
checkPermission_OrgFirst(required, userPermissions, userRoles, userOrgId) ==
    IF Truthy(required.organisationId) /\ userOrgId # required.organisationId
    THEN FALSE
    ELSE \/ PermString(required.resource, required.action) \in userPermissions
         \/ PermString(required.resource, "*") \in userPermissions
         \/ PermString("*", required.action) \in userPermissions
         \/ "*.*" \in userPermissions
         \/ hasAdminRole(userRoles)

TrimEnd(s) ==
    IF Len(s) > 0 /\ SubSeq(s, Len(s), Len(s)) = " "
    THEN SubSeq(s, 1, Len(s) - 1) ELSE s

\* checkPermission comparing the held strings with trailing whitespace removed
checkPermission_Trimmed(required, userPermissions, userRoles, userOrgId) ==
    LET held == {TrimEnd(p) : p \in userPermissions}
    IN  \/ PermString(required.resource, required.action) \in held
        \/ PermString(required.resource, "*") \in held
        \/ PermString("*", required.action) \in held
        \/ "*.*" \in held
        \/ hasAdminRole(userRoles)

checkPermission(required, userPermissions, userRoles, userOrgId) ==
    IF PermString(required.resource, required.action) \in userPermissions
    THEN TRUE
    ELSE IF \/ PermString(required.resource, "*") \in userPermissions
            \/ PermString("*", required.action) \in userPermissions
            \/ "*.*" \in userPermissions
    THEN TRUE
    ELSE IF hasAdminRole(userRoles)
    THEN TRUE
    ELSE IF Truthy(required.organisationId) /\ userOrgId # required.organisationId
    THEN FALSE
    ELSE FALSE

-----------------------------------------------------------------------------
(* Direct calls of checkPermission *)

EvalInputs ==
    [required : PermissionChecks, userPermissions : PermSets,
     userRoles : RoleSets, userOrgId : OptOrgIds]

NoCall ==
    [required |-> [resource |-> "organisation", action |-> "view",
                   organisationId |-> Undefined],
     userPermissions |-> {}, userRoles |-> {}, userOrgId |-> Undefined]

\* checkPermission has no throw statement and calls only Array.includes,
\* Array.some and string concatenation: it returns true or false
Evaluate ==
    /\ evalRet = "pending"
    /\ evalRet' = IF checkPermission(evalArgs.required, evalArgs.userPermissions,
                                     evalArgs.userRoles, evalArgs.userOrgId)
                  THEN "grant" ELSE "deny"
    /\ UNCHANGED <<evalArgs, req, res, authSvc, stack, pc, log, other, svcVars, offBackend>>

-----------------------------------------------------------------------------
(* The AuthService's state *)

\* logins in flight at once
CallIds == {1, 2}

\* the account the logins are for
AccountId == "u1"

\* a users row: the columns login and handleFailedLogin read and write
\* (lastLoginAt is written and never read); null is {}
UserRow(failedLoginAttempts, accountLocked, accountLockedUntil) ==
    [id |-> AccountId,
     failedLoginAttempts |-> failedLoginAttempts,
     accountLocked |-> accountLocked,
     accountLockedUntil |-> accountLockedUntil]

\* the users row as registration leaves it: the defaults of the columns
Registered == UserRow(0, FALSE, {})

Idle == [pc |-> "idle", ok |-> FALSE, attempts |-> 0, sessionId |-> <<>>,
         mustReject |-> FALSE]

NoCallInFlight == [c \in CallIds |-> Idle]

NoResult == [op |-> "none", token |-> <<>>, userId |-> "", error |-> "",
             tokens |-> {}]

\* nothing has been called yet
NoHistory ==
    [started |-> 0, ticks |-> 0, done |-> 0, last |-> NoResult,
     fails |-> 0, fifthAt |-> {}, issued |-> {}, loggedOut |-> {},
     rotated |-> {}]

SvcIdle ==
    /\ db = [user |-> Registered, sessions |-> {}]
    /\ now = 0
    /\ calls = NoCallInFlight
    /\ hist = NoHistory

\* the browser's users
ClientUsers == UserIds

\* consumeCredit calls in flight at once
ConsumerIds == {1, 2}

NotConsuming == [pc |-> "idle", credits_remaining |-> 0, credits_used |-> 0]

NoCheck == [fn |-> "none", user |-> {}, ret |-> FALSE]

\* nothing has been called in the browser yet.  flip changes with every call
\* that returns; window and granted are, for each user, when the current
\* window began and how many calls of checkRateLimit returned true in it;
\* atStart and trues are the credits before the first consumeCredit and the
\* calls of it that returned true
NoClientHistory ==
    [moves |-> 0, flip |-> FALSE, last |-> NoCheck,
     window |-> [u \in ClientUsers |-> {}],
     granted |-> [u \in ClientUsers |-> 0],
     started |-> 0, atStart |-> 0, trues |-> 0]

ClientIdle ==
    /\ rateLimitCache = [u \in ClientUsers |-> {}]
    /\ clock = 0
    /\ user_credits = [credits_remaining |-> 0, credits_used |-> 0]
    /\ consumers = [c \in ConsumerIds |-> NotConsuming]
    /\ cliHist = NoClientHistory

NoSqlCall == [fn |-> "none", uid |-> {}, arg |-> 0, success |-> FALSE]

\* the friends tables as the migration creates them: empty
FriendsIdle ==
    /\ friend_requests = {}
    /\ friends = {}
    /\ sqlRet = NoSqlCall

OffBackendIdle == ClientIdle /\ FriendsIdle

-----------------------------------------------------------------------------
(* Requests and responses *)

UserContexts ==
    [id : UserIds, organisationId : OptOrgIds, roles : RoleSets,
     permissions : PermSets]

NotSent == [sent |-> 0, status |-> 0, code |-> "", message |-> ""]

\* res.status(status).json({success: false, error: {code, message}})
Respond(r, status, code, message) ==
    [sent |-> r.sent + 1, status |-> status, code |-> code, message |-> message]

NoError == [kind |-> "none", message |-> ""]

AuthorizationError(message) == [kind |-> "AuthorizationError", message |-> message]

AuthenticationError(message) == [kind |-> "AuthenticationError", message |-> message]

\* one middleware's record in the log
Ran(name, error, evals) ==
    [mw |-> name, next |-> error.kind = "none", error |-> error, evals |-> evals]

-----------------------------------------------------------------------------
(* The mounted middleware *)

Mw(name) == [name |-> name, required |-> <<>>, param |-> "", statuses |-> {}]

authorizeMw(requiredPermissions) ==
    [Mw("authorize") EXCEPT !.required = requiredPermissions]

enforceOrgIsolationMw ==
    [Mw("enforceOrgIsolation") EXCEPT !.param = "organisationId"]

requireOwnershipOrAdminMw(resourceIdParam) ==
    [Mw("requireOwnershipOrAdmin") EXCEPT !.param = resourceIdParam]

handlerMw(statuses) == [Mw("handler") EXCEPT !.statuses = statuses]

Check(resource, action) ==
    [resource |-> resource, action |-> action, organisationId |-> Undefined]

\* POST /org
RouteCreateOrg ==
    << Mw("authenticate"), Mw("validators"), handlerMw({201, 400, 409, 500}) >>

\* GET /org/:organisationId
RouteGetOrg ==
    << Mw("authenticate"), enforceOrgIsolationMw,
       authorizeMw(<<Check("organisation", "view")>>),
       handlerMw({200, 404, 500}) >>

\* PATCH /org/:organisationId with authorize mounted before enforceOrgIsolation
RoutePatchOrg_AuthorizeFirst ==
    << Mw("authenticate"),
       authorizeMw(<<Check("organisation", "manage")>>),
       enforceOrgIsolationMw,
       Mw("validators"), handlerMw({200, 400, 500}) >>

\* PATCH /org/:organisationId
RoutePatchOrg ==
    << Mw("authenticate"), enforceOrgIsolationMw,
       authorizeMw(<<Check("organisation", "manage")>>),
       Mw("validators"), handlerMw({200, 400, 500}) >>

\* POST /org/:organisationId/invite
RouteInvite ==
    << Mw("authenticate"), enforceOrgIsolationMw,
       authorizeMw(<<Check("user", "invite")>>),
       Mw("validators"), handlerMw({201, 400, 409, 500}) >>

\* GET /org/:organisationId/users
RouteOrgUsers ==
    << Mw("authenticate"), enforceOrgIsolationMw,
       authorizeMw(<<Check("user", "view")>>),
       handlerMw({200, 500}) >>

OrgScopedRoutes == {RouteGetOrg, RoutePatchOrg, RouteInvite, RouteOrgUsers}

\* PermissionChecks handed to authorize(...) where it is mounted alone
MountedChecks ==
    { Check("organisation", "view"),
      [resource |-> "user", action |-> "invite", organisationId |-> Some("A")] }

RECURSIVE SeqsUpTo(_, _)
SeqsUpTo(S, n) ==
    IF n = 0 THEN {<<>>}
    ELSE LET shorter == SeqsUpTo(S, n - 1)
         IN  shorter \cup {Append(q, x) : q \in shorter, x \in S}

RequiredLists == SeqsUpTo(MountedChecks, MaxRequired)

\* the exported middleware mounted alone before a handler, behind authenticate
\* or without it
UnitStacks ==
    LET guards == {authorizeMw(l) : l \in RequiredLists}
                  \cup {enforceOrgIsolationMw, requireOwnershipOrAdminMw("userId")}
    IN  {<<Mw("authenticate"), g, handlerMw({200})>> : g \in guards}
        \cup {<<g, handlerMw({200})>> : g \in guards}

Guard(s) == IF s[1].name = "authenticate" THEN s[2] ELSE s[1]

Params(organisationId, userId) ==
    [organisationId |-> organisationId, userId |-> userId]

Body(organisationId) == [organisationId |-> organisationId]

\* a route with :organisationId always has a non-empty value for it
RouteRequests ==
    {[stack |-> s, params |-> Params(Some(o), Undefined), body |-> Body(b)] :
        s \in OrgScopedRoutes, o \in OrgIds, b \in {Undefined, Some("B")}}
    \cup {[stack |-> RouteCreateOrg, params |-> Params(Undefined, Undefined),
           body |-> Body(Undefined)]}

UnitRequests ==
    {[stack |-> s, params |-> Params(Undefined, Undefined), body |-> Body(Undefined)] :
        s \in {u \in UnitStacks : Guard(u).name = "authorize"}}
    \cup {[stack |-> s, params |-> Params(o, Undefined), body |-> Body(b)] :
        s \in {u \in UnitStacks : Guard(u).name = "enforceOrgIsolation"},
        o \in OptOrgIds, b \in {Undefined, Some(""), Some("A")}}
    \cup {[stack |-> s, params |-> Params(Undefined, i), body |-> Body(Undefined)] :
        s \in {u \in UnitStacks : Guard(u).name = "requireOwnershipOrAdmin"},
        i \in {Undefined} \cup {Some(u) : u \in UserIds}}

\* the Authorization header, whether jwt.verify accepts the bearer token, and
\* the user context getUserContext builds for the token's userId (none: no
\* such user).  getUserContext leaves the roles, permissions and organisation
\* of the context unfetched (empty, a TODO in the source); the contexts here
\* range over every value of the UserContext type, the empty one included.
AuthCases ==
    {[authorization |-> "none", tokenValid |-> FALSE, user |-> {}],
     [authorization |-> "basic", tokenValid |-> FALSE, user |-> {}],
     [authorization |-> "bearer", tokenValid |-> FALSE, user |-> {}],
     [authorization |-> "bearer", tokenValid |-> TRUE, user |-> {}]}
    \cup {[authorization |-> "bearer", tokenValid |-> TRUE, user |-> {c}] :
            c \in UserContexts}

\* a request before any middleware has run
Arrives(m, a) ==
    [req |-> [authorization |-> a.authorization, user |-> {}, token |-> {},
              params |-> m.params, body |-> m.body],
     res |-> NotSent,
     authSvc |-> [tokenValid |-> a.tokenValid, user |-> a.user],
     stack |-> m.stack,
     pc |-> 1,
     log |-> <<>>]

\* no request
NoRequest ==
    [req |-> [authorization |-> "none", user |-> {}, token |-> {},
              params |-> Params(Undefined, Undefined), body |-> Body(Undefined)],
     res |-> NotSent,
     authSvc |-> [tokenValid |-> FALSE, user |-> {}],
     stack |-> <<>>,
     pc |-> 0,
     log |-> <<>>]

\* the request the middleware are running for
Current ==
    [req |-> req, res |-> res, authSvc |-> authSvc, stack |-> stack, pc |-> pc,
     log |-> log]

IsCurrent(r) ==
    /\ req = r.req
    /\ res = r.res
    /\ authSvc = r.authSvc
    /\ stack = r.stack
    /\ pc = r.pc
    /\ log = r.log

Init ==
    /\ evalArgs = NoCall
    /\ evalRet = "idle"
    /\ other = NoRequest
    /\ SvcIdle
    /\ OffBackendIdle
    /\ \E m \in RouteRequests \cup UnitRequests, a \in AuthCases :
        /\ stack = m.stack
        /\ req = [authorization |-> a.authorization, user |-> {}, token |-> {},
                  params |-> m.params, body |-> m.body]
        /\ authSvc = [tokenValid |-> a.tokenValid, user |-> a.user]
    /\ res = NotSent
    /\ pc = 1
    /\ log = <<>>

InitEval ==
    /\ evalArgs \in EvalInputs
    /\ evalRet = "pending"
    /\ IsCurrent(NoRequest)
    /\ other = NoRequest
    /\ SvcIdle
    /\ OffBackendIdle

\* two requests in flight at once: the requests and the users of the
\* concurrent runs
ConcRequests ==
    {m \in RouteRequests :
        /\ m.stack \in {RouteGetOrg, RouteInvite}
        /\ m.body.organisationId = Undefined}
    \cup {m \in UnitRequests :
        /\ Guard(m.stack).name = "requireOwnershipOrAdmin"
        /\ m.stack[1].name = "authenticate"
        /\ m.params.userId = Some("u1")}

ConcAuthCases ==
    {a \in AuthCases :
        \A c \in a.user :
            /\ c.roles \in {{}, {[name |-> "ADMIN"]}}
            /\ c.permissions \in {{}, {"organisation.view"}}}

InitConc ==
    /\ evalArgs = NoCall
    /\ evalRet = "idle"
    /\ SvcIdle
    /\ OffBackendIdle
    /\ \E m \in ConcRequests, a \in ConcAuthCases : IsCurrent(Arrives(m, a))
    /\ \E m \in ConcRequests, a \in ConcAuthCases : other = Arrives(m, a)

-----------------------------------------------------------------------------
(* The middleware *)

Running(name) == pc > 0 /\ pc <= Len(stack) /\ stack[pc].name = name

User(r) == CHOOSE u \in r.user : TRUE

\* the catch block shared by the middleware: an AuthorizationError becomes the
\* middleware's 4xx response, anything else a 500
Caught(error, status, code, failMessage) ==
    IF error.kind = "AuthorizationError"
    THEN Respond(res, status, code, error.message)
    ELSE Respond(res, 500, "INTERNAL_ERROR", failMessage)

\* a catch block that answers and then falls through to next()
Finish_RespondAndContinue(name, error, evals, status, code, failMessage) ==
    /\ log' = Append(log, Ran(name, error, evals))
    /\ pc' = pc + 1
    /\ res' = IF error.kind = "none" THEN res
              ELSE Caught(error, status, code, failMessage)

\* next() when no error was thrown, the catch block's response otherwise
Finish(name, error, evals, status, code, failMessage) ==
    /\ log' = Append(log, Ran(name, error, evals))
    /\ IF error.kind = "none"
       THEN pc' = pc + 1 /\ res' = res
       ELSE pc' = 0 /\ res' = Caught(error, status, code, failMessage)

authenticateError ==
    IF req.authorization # "bearer"
    THEN AuthorizationError("Missing or invalid authorization header")
    ELSE IF ~authSvc.tokenValid
    THEN AuthenticationError("Invalid access token")
    ELSE IF authSvc.user = {}
    THEN AuthenticationError("User not found")
    ELSE NoError

authenticate ==
    /\ Running("authenticate")
    /\ req' = IF authenticateError.kind = "none"
              THEN [req EXCEPT !.user = authSvc.user,
                               !.token = {[userId |-> User(authSvc).id]}]
              ELSE req
    /\ Finish("authenticate", authenticateError, 0, 401, "UNAUTHORIZED",
              "Authentication failed")
    /\ UNCHANGED <<evalArgs, evalRet, authSvc, stack, other, svcVars, offBackend>>

\* indices of the required permissions checkPermission denies
Denied(requiredPermissions, user) ==
    {i \in 1..Len(requiredPermissions) :
        ~checkPermission(requiredPermissions[i], user.permissions, user.roles,
                         user.organisationId)}

Min(S) == CHOOSE i \in S : \A j \in S : i <= j

\* authorize letting a request through when any one required permission is held
authorizeError_AnyGranted(requiredPermissions) ==
    IF req.user = {}
    THEN AuthorizationError("Authentication required")
    ELSE IF /\ requiredPermissions # <<>>
            /\ Denied(requiredPermissions, User(req)) = DOMAIN requiredPermissions
    THEN AuthorizationError("Insufficient permissions: "
             \o PermString(requiredPermissions[1].resource,
                           requiredPermissions[1].action))
    ELSE NoError

\* authorize reading the user from the request that authenticated last,
\* as it would from a module-level variable
authorizeError_SharedUser(requiredPermissions) ==
    LET user == IF other.req.user # {} THEN other.req.user ELSE req.user
    IN  IF user = {}
        THEN AuthorizationError("Authentication required")
        ELSE IF Denied(requiredPermissions, CHOOSE u \in user : TRUE) # {}
        THEN LET permission ==
                     requiredPermissions[Min(Denied(requiredPermissions,
                                                    CHOOSE u \in user : TRUE))]
             IN  AuthorizationError("Insufficient permissions: "
                     \o PermString(permission.resource, permission.action))
        ELSE NoError

authorizeError(requiredPermissions) ==
    IF req.user = {}
    THEN AuthorizationError("Authentication required")
    ELSE IF Denied(requiredPermissions, User(req)) # {}
    THEN LET permission == requiredPermissions[Min(Denied(requiredPermissions, User(req)))]
         IN  AuthorizationError("Insufficient permissions: "
                 \o PermString(permission.resource, permission.action))
    ELSE NoError

\* calls of checkPermission the loop makes before it ends or throws
authorizeEvals(requiredPermissions) ==
    IF req.user = {} THEN 0
    ELSE IF Denied(requiredPermissions, User(req)) # {}
    THEN Min(Denied(requiredPermissions, User(req)))
    ELSE Len(requiredPermissions)

authorize ==
    /\ Running("authorize")
    /\ Finish("authorize", authorizeError(stack[pc].required),
              authorizeEvals(stack[pc].required), 403, "FORBIDDEN",
              "Authorization failed")
    /\ UNCHANGED <<evalArgs, evalRet, req, authSvc, stack, other, svcVars, offBackend>>

\* requireOwnershipOrAdmin with no admin bypass: the owner alone passes
requireOwnershipOrAdminError_OwnerOnly(resourceIdParam) ==
    IF req.user = {}
    THEN AuthorizationError("Authentication required")
    ELSE IF req.params[resourceIdParam] # Some(User(req).id)
    THEN AuthorizationError("Access denied: ownership or admin role required")
    ELSE NoError

requireOwnershipOrAdminError(resourceIdParam) ==
    IF req.user = {}
    THEN AuthorizationError("Authentication required")
    ELSE LET resourceId == req.params[resourceIdParam]
             isAdmin == hasAdminRole(User(req).roles)
             ownsResource == resourceId = Some(User(req).id)
         IN  IF ~isAdmin /\ ~ownsResource
             THEN AuthorizationError("Access denied: ownership or admin role required")
             ELSE NoError

requireOwnershipOrAdmin ==
    /\ Running("requireOwnershipOrAdmin")
    /\ Finish("requireOwnershipOrAdmin",
              requireOwnershipOrAdminError(stack[pc].param), 0, 403, "FORBIDDEN",
              "Authorization failed")
    /\ UNCHANGED <<evalArgs, evalRet, req, authSvc, stack, other, svcVars, offBackend>>

\* enforceOrgIsolation without the rule for independent users
enforceOrgIsolationError_NoIndependentCheck(orgIdParam) ==
    IF req.user = {}
    THEN AuthorizationError("Authentication required")
    ELSE LET requestedOrgId == OrElse(req.params[orgIdParam], req.body.organisationId)
             userOrgId == User(req).organisationId
         IN  IF Truthy(userOrgId) /\ Truthy(requestedOrgId)
                /\ userOrgId # requestedOrgId
             THEN AuthorizationError(
                      "Access denied: organisation isolation violation")
             ELSE NoError

\* enforceOrgIsolation with the role bypass checkPermission has
enforceOrgIsolationError_AdminBypass(orgIdParam) ==
    IF req.user = {}
    THEN AuthorizationError("Authentication required")
    ELSE LET requestedOrgId == OrElse(req.params[orgIdParam], req.body.organisationId)
             userOrgId == User(req).organisationId
         IN  IF hasAdminRole(User(req).roles)
             THEN NoError
             ELSE IF ~Truthy(userOrgId) /\ Truthy(requestedOrgId)
             THEN AuthorizationError(
                      "Independent users cannot access organisation resources")
             ELSE IF Truthy(userOrgId) /\ Truthy(requestedOrgId)
                     /\ userOrgId # requestedOrgId
             THEN AuthorizationError(
                      "Access denied: organisation isolation violation")
             ELSE NoError

\* enforceOrgIsolation reading req.user?.organisationId with no check of req.user
enforceOrgIsolationError_OptionalUser(orgIdParam) ==
    LET requestedOrgId == OrElse(req.params[orgIdParam], req.body.organisationId)
        userOrgId == IF req.user = {} THEN Undefined ELSE User(req).organisationId
    IN  IF ~Truthy(userOrgId) /\ Truthy(requestedOrgId)
        THEN AuthorizationError(
                 "Independent users cannot access organisation resources")
        ELSE IF Truthy(userOrgId) /\ Truthy(requestedOrgId)
                /\ userOrgId # requestedOrgId
        THEN AuthorizationError(
                 "Access denied: organisation isolation violation")
        ELSE NoError

enforceOrgIsolationError(orgIdParam) ==
    IF req.user = {}
    THEN AuthorizationError("Authentication required")
    ELSE LET requestedOrgId == OrElse(req.params[orgIdParam], req.body.organisationId)
             userOrgId == User(req).organisationId
         IN  IF ~Truthy(userOrgId) /\ Truthy(requestedOrgId)
             THEN AuthorizationError(
                      "Independent users cannot access organisation resources")
             ELSE IF Truthy(userOrgId) /\ Truthy(requestedOrgId)
                     /\ userOrgId # requestedOrgId
             THEN AuthorizationError(
                      "Access denied: organisation isolation violation")
             ELSE NoError

\* enforceOrgIsolation storing the organisation it resolved in req.body
enforceOrgIsolation_StoresRequested ==
    /\ Running("enforceOrgIsolation")
    /\ Finish("enforceOrgIsolation", enforceOrgIsolationError(stack[pc].param), 0,
              403, "FORBIDDEN", "Organization isolation check failed")
    /\ req' = [req EXCEPT !.body.organisationId =
                    OrElse(req.params[stack[pc].param], req.body.organisationId)]
    /\ UNCHANGED <<evalArgs, evalRet, authSvc, stack, other, svcVars, offBackend>>

enforceOrgIsolation ==
    /\ Running("enforceOrgIsolation")
    /\ Finish("enforceOrgIsolation", enforceOrgIsolationError(stack[pc].param), 0,
              403, "FORBIDDEN", "Organization isolation check failed")
    /\ UNCHANGED <<evalArgs, evalRet, req, authSvc, stack, other, svcVars, offBackend>>

\* the express-validator chains of a route: they record errors on the request
\* for the handler and always call next()
validators ==
    /\ Running("validators")
    /\ Finish("validators", NoError, 0, 400, "VALIDATION_ERROR", "")
    /\ UNCHANGED <<evalArgs, evalRet, req, authSvc, stack, other, svcVars, offBackend>>

\* the route handler: it answers with one of the route's statuses
handler ==
    /\ Running("handler")
    /\ log' = Append(log, Ran("handler", NoError, 0))
    /\ \E status \in stack[pc].statuses :
        res' = Respond(res, status, "", "")
    /\ pc' = 0
    /\ UNCHANGED <<evalArgs, evalRet, req, authSvc, stack, other, svcVars, offBackend>>

\* the event loop turns to the other request in flight: the request that was
\* running waits where it is
Switch ==
    /\ other # NoRequest
    /\ other' = Current
    /\ req' = other.req
    /\ res' = other.res
    /\ authSvc' = other.authSvc
    /\ stack' = other.stack
    /\ pc' = other.pc
    /\ log' = other.log
    /\ UNCHANGED <<evalArgs, evalRet, svcVars, offBackend>>

Next ==
    \/ authenticate
    \/ authorize
    \/ requireOwnershipOrAdmin
    \/ enforceOrgIsolation
    \/ validators
    \/ handler

Spec == Init /\ [][Next]_vars

NextEval == Evaluate

SpecEval == InitEval /\ [][NextEval]_vars

NextConc ==
    \/ authenticate
    \/ authorize
    \/ requireOwnershipOrAdmin
    \/ enforceOrgIsolation
    \/ validators
    \/ handler
    \/ Switch

SpecConc == InitConc /\ [][NextConc]_vars

-----------------------------------------------------------------------------
(* The AuthService: login, refreshToken, logout *)

\* most AuthService calls started in one run
MaxCalls == 3
\* most times the clock moves in one run
MaxTicks == 1

\* handleFailedLogin: if (attempts >= 5)
LockThreshold == 5
\* lockUntil.setHours(lockUntil.getHours() + 1): one hour, in seconds
LockSeconds == 3600
\* expiresAt.setDate(expiresAt.getDate() + 7): seven days, in seconds
SessionSeconds == 604800
\* JWT_REFRESH_EXPIRES_IN || '7d', in seconds
JwtRefreshSeconds == 604800

reqVars == <<evalArgs, evalRet, req, res, authSvc, stack, pc, log, other>>

\* jwt.sign({userId, tokenVersion: 1, sessionId}, jwtRefreshSecret, {expiresIn}):
\* the token is its payload and the second it was issued at (HS256 signs equal
\* payloads to equal strings)
generateRefreshToken(userId, sessionId, at) ==
    [userId |-> userId, sessionId |-> sessionId, iat |-> at]

\* jwt.verify of a token the service signed: it throws once exp has come
verifyRefreshToken(token, at) == at < token.iat + JwtRefreshSeconds

\* sha256: equal digests only for equal tokens
hashToken(token) == <<"sha256", token>>

\* the select of refreshToken without its test of revoked
FindSession_IgnoresRevoked(token, at) ==
    {s \in db.sessions :
        /\ s.refreshTokenHash = hashToken(token)
        /\ s.expiresAt > at}

\* the select of refreshToken: refreshTokenHash is unique, so at most one row
FindSession(token, at) ==
    {s \in db.sessions :
        /\ s.refreshTokenHash = hashToken(token)
        /\ ~s.revoked
        /\ s.expiresAt > at}

Result(op, token, userId, error, tokens) ==
    [op |-> op, token |-> token, userId |-> userId, error |-> error,
     tokens |-> tokens]

\* login up to its first write: the select of the user, the lock check and
\* verifyPassword (ok: whether the password given is the account's)
login ==
    /\ hist.started < MaxCalls
    /\ \E c \in CallIds, ok \in BOOLEAN :
        /\ calls[c].pc = "idle"
        /\ LET user == db.user
               locked == /\ user.accountLocked
                         /\ \E until \in user.accountLockedUntil : until > now
               mustReject == \E t \in hist.fifthAt : now < t + LockSeconds
           IN  IF locked
               THEN /\ calls' = calls
                    /\ hist' = [hist EXCEPT
                           !.started = @ + 1, !.done = @ + 1,
                           !.last = Result("login", <<>>, "",
                                           "Account is temporarily locked", {})]
               ELSE /\ calls' = [calls EXCEPT ![c] =
                           [Idle EXCEPT !.pc = "verified", !.ok = ok,
                                        !.mustReject = mustReject]]
                    /\ hist' = [hist EXCEPT !.started = @ + 1]
    /\ UNCHANGED <<db, now, reqVars, offBackend>>

\* handleFailedLogin up to its update: the select of the user
handleFailedLogin ==
    /\ \E c \in CallIds :
        /\ calls[c].pc = "verified" /\ ~calls[c].ok
        /\ calls' = [calls EXCEPT ![c].pc = "failing",
                                  ![c].attempts = db.user.failedLoginAttempts]
    /\ UNCHANGED <<db, now, hist, reqVars, offBackend>>

\* the update of handleFailedLogin, and login's throw after it
handleFailedLoginUpdate ==
    /\ \E c \in CallIds :
        /\ calls[c].pc = "failing"
        /\ LET attempts == calls[c].attempts + 1
               lock == attempts >= LockThreshold
           IN  db' = [db EXCEPT !.user =
                   [@ EXCEPT !.failedLoginAttempts = attempts,
                             !.accountLocked = IF lock THEN TRUE ELSE @,
                             !.accountLockedUntil =
                                 IF lock THEN {now + LockSeconds} ELSE @]]
        /\ calls' = [calls EXCEPT ![c] = Idle]
        /\ hist' = [hist EXCEPT
               !.done = @ + 1,
               !.fails = @ + 1,
               !.fifthAt = IF hist.fails + 1 = LockThreshold THEN {now} ELSE @,
               !.last = Result("login", <<>>, "", "Invalid credentials", {})]
    /\ UNCHANGED <<now, reqVars, offBackend>>

\* login after a good password: the update that resets the failed attempts
loginReset ==
    /\ \E c \in CallIds :
        /\ calls[c].pc = "verified" /\ calls[c].ok
        /\ db' = [db EXCEPT !.user = UserRow(0, FALSE, {})]
        /\ calls' = [calls EXCEPT ![c].pc = "reset"]
        /\ hist' = [hist EXCEPT !.fails = 0, !.fifthAt = {}]
    /\ UNCHANGED <<now, reqVars, offBackend>>

\* createSession up to its insert: sessions.id is the table's own default, not
\* the sessionId signed into the token
createSession ==
    /\ \E c \in CallIds :
        /\ calls[c].pc = "reset"
        /\ LET n == Cardinality(db.sessions) + 1
               sessionId == <<"hex", n>>
               refreshToken == generateRefreshToken(AccountId, sessionId, now)
           IN  /\ db' = [db EXCEPT !.sessions = @ \cup
                       {[id |-> <<"uuid", n>>,
                         userId |-> AccountId,
                         refreshTokenHash |-> hashToken(refreshToken),
                         expiresAt |-> now + SessionSeconds,
                         revoked |-> FALSE]}]
               /\ calls' = [calls EXCEPT ![c].pc = "inserted",
                                         ![c].sessionId = sessionId]
    /\ UNCHANGED <<now, hist, reqVars, offBackend>>

\* the end of createSession and of login: generateTokens signs the tokens
\* login returns, at the time it is reached
loginReturn ==
    /\ \E c \in CallIds :
        /\ calls[c].pc = "inserted"
        /\ LET token == generateRefreshToken(AccountId, calls[c].sessionId, now)
           IN  hist' = [hist EXCEPT
                   !.done = @ + 1,
                   !.issued = @ \cup {token},
                   !.last = Result("login", <<>>, "", "", {token})]
        /\ calls' = [calls EXCEPT ![c] = Idle]
    /\ UNCHANGED <<db, now, reqVars, offBackend>>

\* refreshToken(t) for a refresh token t the service returned earlier; the
\* update of lastUsedAt writes a column nothing reads
refreshToken ==
    /\ hist.started < MaxCalls
    /\ \E t \in hist.issued :
        LET found == FindSession(t, now)
            valid == /\ verifyRefreshToken(t, now)
                     /\ found # {}
                     /\ \A session \in found : session.userId = t.userId
        IN  IF ~valid
            THEN hist' = [hist EXCEPT
                    !.started = @ + 1, !.done = @ + 1,
                    !.last = Result("refreshToken", t, "",
                                    "Invalid refresh token", {})]
            ELSE LET session == CHOOSE r \in found : TRUE
                     token == generateRefreshToken(session.userId, session.id, now)
                 IN  hist' = [hist EXCEPT
                         !.started = @ + 1, !.done = @ + 1,
                         !.issued = @ \cup {token},
                         !.rotated = @ \cup {[old |-> t, new |-> token,
                                               session |-> session.id]},
                         !.last = Result("refreshToken", t, "", "", {token})]
    /\ UNCHANGED <<db, now, calls, reqVars, offBackend>>

\* logout(t, u): POST /api/auth/logout with refresh token t in the body, u the
\* authenticated user
logout ==
    /\ hist.started < MaxCalls
    /\ \E t \in hist.issued, u \in UserIds :
        /\ db' = [db EXCEPT !.sessions =
               {IF s.refreshTokenHash = hashToken(t) /\ s.userId = u
                THEN [s EXCEPT !.revoked = TRUE] ELSE s : s \in @}]
        /\ hist' = [hist EXCEPT
               !.started = @ + 1, !.done = @ + 1,
               !.loggedOut = IF u = t.userId THEN @ \cup {t} ELSE @,
               !.last = Result("logout", t, u, "", {})]
    /\ UNCHANGED <<now, calls, reqVars, offBackend>>

\* time passes: a second, the hour of a lock, the week of a session
Tick ==
    /\ hist.ticks < MaxTicks
    /\ \E d \in {1, LockSeconds, SessionSeconds} : now' = now + d
    /\ hist' = [hist EXCEPT !.ticks = @ + 1]
    /\ UNCHANGED <<db, calls, reqVars, offBackend>>

\* the users row after k failed logins in a row, the last of them at time 0
AfterFailures(k) ==
    IF k < LockThreshold
    THEN UserRow(k, FALSE, {})
    ELSE UserRow(k, TRUE, {LockSeconds})

\* the account has seen up to five failed logins since its last good one; no
\* session is open and no call is in flight
InitAuth ==
    /\ evalArgs = NoCall
    /\ evalRet = "idle"
    /\ IsCurrent(NoRequest)
    /\ other = NoRequest
    /\ now = 0
    /\ calls = NoCallInFlight
    /\ OffBackendIdle
    /\ \E k \in 0..LockThreshold :
        /\ db = [user |-> AfterFailures(k), sessions |-> {}]
        /\ hist = [NoHistory EXCEPT
               !.fails = k,
               !.fifthAt = IF k = LockThreshold THEN {0} ELSE {}]

NextAuth ==
    \/ login
    \/ handleFailedLogin
    \/ handleFailedLoginUpdate
    \/ loginReset
    \/ createSession
    \/ loginReturn
    \/ refreshToken
    \/ logout
    \/ Tick

SpecAuth == InitAuth /\ [][NextAuth]_vars

-----------------------------------------------------------------------------
(* The browser's rate limiter: useRateLimiter.checkRateLimit *)

\* most times the browser's clock moves in one run
MaxClockMoves == 2

RATE_LIMIT_WINDOW_MS == 60 * 1000

MAX_REQUESTS_PER_WINDOW == 10

backendVars == <<evalArgs, evalRet, req, res, authSvc, stack, pc, log, other,
                 svcVars>>

\* now - state.windowStart >= RATE_LIMIT_WINDOW_MS: the window ends a
\* millisecond early
Elapsed_AtWindowEnd(state, at) ==
    \A st \in state : at - st.windowStart >= RATE_LIMIT_WINDOW_MS

\* !state || now - state.windowStart > RATE_LIMIT_WINDOW_MS
Elapsed(state, at) ==
    \A st \in state : at - st.windowStart > RATE_LIMIT_WINDOW_MS

\* the history of the rate limiter after a call for user returned ret
Checked(user, ret) ==
    LET key == CHOOSE u \in user : TRUE
        began == cliHist.window[key]
        over == \A start \in began : clock - start > RATE_LIMIT_WINDOW_MS
        h == [cliHist EXCEPT !.flip = ~@,
                             !.last = [fn |-> "checkRateLimit", user |-> user,
                                       ret |-> ret]]
    IN  IF user = {} THEN h
        ELSE IF over
        THEN [h EXCEPT !.window[key] = {clock},
                       !.granted[key] = IF ret THEN 1 ELSE 0]
        ELSE [h EXCEPT !.granted[key] = IF ret THEN @ + 1 ELSE @]

\* checkRateLimit() of the hook, for the signed-in user or for none; it runs
\* to its end without an await
checkRateLimit ==
    /\ \E user \in {{}} \cup {{u} : u \in ClientUsers} :
        IF user = {}
        THEN /\ rateLimitCache' = rateLimitCache
             /\ cliHist' = Checked(user, FALSE)
        ELSE LET key == CHOOSE u \in user : TRUE
                 state == rateLimitCache[key]
             IN  IF Elapsed(state, clock)
                 THEN /\ rateLimitCache' = [rateLimitCache EXCEPT ![key] =
                             {[requestCount |-> 1, windowStart |-> clock]}]
                      /\ cliHist' = Checked(user, TRUE)
                 ELSE LET st == CHOOSE r \in state : TRUE
                      IN  IF st.requestCount >= MAX_REQUESTS_PER_WINDOW
                          THEN /\ rateLimitCache' = rateLimitCache
                               /\ cliHist' = Checked(user, FALSE)
                          ELSE /\ rateLimitCache' = [rateLimitCache EXCEPT ![key] =
                                      {[st EXCEPT !.requestCount = @ + 1]}]
                               /\ cliHist' = Checked(user, TRUE)
    /\ UNCHANGED <<clock, user_credits, consumers, friendVars, backendVars>>

\* Date.now() moves on: a millisecond, or the length of a window
ClockMoves ==
    /\ cliHist.moves < MaxClockMoves
    /\ \E d \in {1, RATE_LIMIT_WINDOW_MS} : clock' = clock + d
    /\ cliHist' = [cliHist EXCEPT !.moves = @ + 1]
    /\ UNCHANGED <<rateLimitCache, user_credits, consumers, friendVars,
                   backendVars>>

\* the module is loaded: the Map is empty
InitRate ==
    /\ evalArgs = NoCall
    /\ evalRet = "idle"
    /\ IsCurrent(NoRequest)
    /\ other = NoRequest
    /\ SvcIdle
    /\ OffBackendIdle

NextRate ==
    \/ checkRateLimit
    \/ ClockMoves

SpecRate == InitRate /\ [][NextRate]_vars

-----------------------------------------------------------------------------
(* The browser's credits: useRateLimiter.consumeCredit *)

\* most calls of consumeCredit started in one run
MaxConsumes == 4
\* most credits the user has left at the start
MaxCredits == 2

rateVars == <<rateLimitCache, clock>>

ConsumeReturns(ret) ==
    [cliHist EXCEPT !.flip = ~@,
                    !.last = [fn |-> "consumeCredit", user |-> {"u1"}, ret |-> ret],
                    !.trues = IF ret THEN @ + 1 ELSE @]

\* consumeCredit up to its first await: the select of credits_remaining, and
\* the return of false when none is left
consumeCredit ==
    /\ cliHist.started < MaxConsumes
    /\ \E c \in ConsumerIds :
        /\ consumers[c].pc = "idle"
        /\ IF user_credits.credits_remaining <= 0
           THEN /\ consumers' = consumers
                /\ cliHist' = [ConsumeReturns(FALSE) EXCEPT !.started = @ + 1]
           ELSE /\ consumers' = [consumers EXCEPT ![c] =
                       [NotConsuming EXCEPT
                           !.pc = "fetched",
                           !.credits_remaining = user_credits.credits_remaining]]
                /\ cliHist' = [cliHist EXCEPT !.started = @ + 1]
    /\ UNCHANGED <<user_credits, rateVars, friendVars, backendVars>>

\* the select of credits_used inside the update's argument
consumeCreditReadUsed ==
    /\ \E c \in ConsumerIds :
        /\ consumers[c].pc = "fetched"
        /\ consumers' = [consumers EXCEPT
               ![c].pc = "updating",
               ![c].credits_used = user_credits.credits_used]
    /\ UNCHANGED <<user_credits, cliHist, rateVars, friendVars, backendVars>>

\* the update of the row with the values computed from the two reads, and
\* the return of true
consumeCreditUpdate ==
    /\ \E c \in ConsumerIds :
        /\ consumers[c].pc = "updating"
        /\ user_credits' =
               [credits_remaining |-> consumers[c].credits_remaining - 1,
                credits_used |-> consumers[c].credits_used + 1]
        /\ consumers' = [consumers EXCEPT ![c] = NotConsuming]
        /\ cliHist' = ConsumeReturns(TRUE)
    /\ UNCHANGED <<rateVars, friendVars, backendVars>>

\* the user has a user_credits row with some credits left, or none
InitCredit ==
    /\ evalArgs = NoCall
    /\ evalRet = "idle"
    /\ IsCurrent(NoRequest)
    /\ other = NoRequest
    /\ SvcIdle
    /\ FriendsIdle
    /\ rateLimitCache = [u \in ClientUsers |-> {}]
    /\ clock = 0
    /\ consumers = [c \in ConsumerIds |-> NotConsuming]
    /\ \E credits \in 0..MaxCredits :
        /\ user_credits = [credits_remaining |-> credits, credits_used |-> 0]
        /\ cliHist = [NoClientHistory EXCEPT !.atStart = credits]

NextCredit ==
    \/ consumeCredit
    \/ consumeCreditReadUsed
    \/ consumeCreditUpdate

SpecCredit == InitCredit /\ [][NextCredit]_vars

-----------------------------------------------------------------------------
(* Friend requests: the functions of the friends migration *)

\* most rows of friend_requests in one run
MaxRequests == 2

\* auth.users ids: UUIDs, which LEAST and GREATEST order
FriendUsers == {1, 2, 3}

\* auth.uid(): the caller, NULL ({}) when not authenticated
Uids == {{}} \cup {{u} : u \in FriendUsers}

\* public.are_friends(user_a, user_b)
are_friends(user_a, user_b) ==
    \E f \in friends :
        \/ f.user_id = user_a /\ f.friend_id = user_b
        \/ f.user_id = user_b /\ f.friend_id = user_a

\* public.get_friend_request_status(user_a, user_b): the status of the
\* request created last between the two, in either direction
get_friend_request_status(user_a, user_b) ==
    LET between == {r \in friend_requests :
                        \/ r.sender_id = user_a /\ r.receiver_id = user_b
                        \/ r.sender_id = user_b /\ r.receiver_id = user_a}
    IN  IF between = {} THEN "none"
        ELSE (CHOOSE r \in between :
                 \A q \in between : q.created_at <= r.created_at).status

\* (v_smaller_id, v_larger_id) of accept_friend_request
Friendship(p_sender_id, v_user_id) ==
    [user_id |-> IF p_sender_id < v_user_id THEN p_sender_id ELSE v_user_id,
     friend_id |-> IF p_sender_id < v_user_id THEN v_user_id ELSE p_sender_id]

Returned(fn, uid, arg, success) ==
    [fn |-> fn, uid |-> uid, arg |-> arg, success |-> success]

\* INSERT ... ON CONFLICT (sender_id, receiver_id) DO UPDATE SET status =
\* 'pending' WHERE friend_requests.status != 'accepted'; created_at is set by
\* the insert alone, later than every row there is
Upsert(v_sender_id, p_receiver_id) ==
    LET conflict == {r \in friend_requests :
                        r.sender_id = v_sender_id /\ r.receiver_id = p_receiver_id}
    IN  IF conflict = {}
        THEN friend_requests \cup
                 {[sender_id |-> v_sender_id, receiver_id |-> p_receiver_id,
                   status |-> "pending",
                   created_at |-> Cardinality(friend_requests) + 1]}
        ELSE {IF r \in conflict /\ r.status # "accepted"
              THEN [r EXCEPT !.status = "pending"] ELSE r : r \in friend_requests}

\* UPDATE friend_requests SET status = ... WHERE sender_id = p_sender_id AND
\* receiver_id = v_user_id AND status = 'pending'
Pending(p_sender_id, uid) ==
    {r \in friend_requests :
        /\ r.sender_id = p_sender_id
        /\ {r.receiver_id} = uid
        /\ r.status = "pending"}

Answer(p_sender_id, uid, status) ==
    {IF r \in Pending(p_sender_id, uid) THEN [r EXCEPT !.status = status] ELSE r :
        r \in friend_requests}

send_friend_request ==
    /\ \E uid \in Uids, p_receiver_id \in FriendUsers :
        /\ \/ Cardinality(friend_requests) < MaxRequests
           \/ \E r \in friend_requests :
                  {r.sender_id} = uid /\ r.receiver_id = p_receiver_id
        /\ LET v_sender_id == CHOOSE u \in uid : TRUE
               refused == \/ uid = {}
                          \/ v_sender_id = p_receiver_id
                          \/ are_friends(v_sender_id, p_receiver_id)
                          \/ get_friend_request_status(v_sender_id, p_receiver_id)
                                 \in {"pending", "accepted"}
           IN  /\ friend_requests' = IF refused THEN friend_requests
                                      ELSE Upsert(v_sender_id, p_receiver_id)
               /\ sqlRet' = Returned("send_friend_request", uid, p_receiver_id,
                                      ~refused)
    /\ UNCHANGED <<friends, clientVars, backendVars>>

accept_friend_request ==
    /\ \E uid \in Uids, p_sender_id \in FriendUsers :
        LET found == Pending(p_sender_id, uid) # {}
        IN  /\ friend_requests' = Answer(p_sender_id, uid, "accepted")
            /\ friends' = IF found
                           THEN friends \cup
                                {Friendship(p_sender_id, CHOOSE u \in uid : TRUE)}
                           ELSE friends
            /\ sqlRet' = Returned("accept_friend_request", uid, p_sender_id, found)
    /\ UNCHANGED <<clientVars, backendVars>>

reject_friend_request ==
    /\ \E uid \in Uids, p_sender_id \in FriendUsers :
        /\ friend_requests' = Answer(p_sender_id, uid, "rejected")
        /\ sqlRet' = Returned("reject_friend_request", uid, p_sender_id,
                               Pending(p_sender_id, uid) # {})
    /\ UNCHANGED <<friends, clientVars, backendVars>>

\* an insert into public.friends through the API, as acceptFriendRequest of
\* the friends page makes it: the policy "Users can create friendships"
\* admits a row that names the caller, the table's CHECK and UNIQUE the rest
insertFriend ==
    /\ \E uid \in Uids \ {{}}, user_id \in FriendUsers, friend_id \in FriendUsers :
        /\ uid = {user_id} \/ uid = {friend_id}
        /\ user_id < friend_id
        /\ [user_id |-> user_id, friend_id |-> friend_id] \notin friends
        /\ friends' = friends \cup {[user_id |-> user_id, friend_id |-> friend_id]}
        /\ sqlRet' = Returned("insert", uid,
                               IF uid = {user_id} THEN friend_id ELSE user_id, TRUE)
    /\ UNCHANGED <<friend_requests, clientVars, backendVars>>

\* the migration has run: both tables are empty
InitFriends ==
    /\ evalArgs = NoCall
    /\ evalRet = "idle"
    /\ IsCurrent(NoRequest)
    /\ other = NoRequest
    /\ SvcIdle
    /\ OffBackendIdle

NextFriends ==
    \/ send_friend_request
    \/ accept_friend_request
    \/ reject_friend_request
    \/ insertFriend

SpecFriends == InitFriends /\ [][NextFriends]_vars

-----------------------------------------------------------------------------
(* Properties of checkPermission, under SpecEval *)

Evaluated == evalRet \notin {"idle", "pending"}

SuperUser(roles) ==
    \E r \in roles : r.name \in {"ADMIN", "SYSTEM_ADMIN"}

\* the four strings that match a required (resource, action)
MatchingForms(required) ==
    { required.resource \o "." \o required.action,
      required.resource \o ".*",
      "*." \o required.action,
      "*.*" }

Present(v) == v # {} /\ v # {""}

\* C1: for a user with no ADMIN or SYSTEM_ADMIN role, checkPermission grants
\* exactly when userPermissions holds "<resource>.<action>", "<resource>.*",
\* "*.<action>" or "*.*", and denies when it holds none of the four.
C1_GrantIffPermissionString ==
    (Evaluated /\ ~SuperUser(evalArgs.userRoles))
        => (evalRet = "grant"
                <=> MatchingForms(evalArgs.required) \cap evalArgs.userPermissions # {})

C1_Witness ==
    /\ evalRet = "grant"
    /\ evalArgs.userRoles = {[name |-> "TEACHER"]}
    /\ evalArgs.userPermissions = {"*.view", "user.invite"}
    /\ evalArgs.required.resource = "organisation"
    /\ evalArgs.required.action = "view"

\* C2: a user holding a role named exactly ADMIN or SYSTEM_ADMIN is granted
\* every PermissionCheck, whatever its resource, action and organisationId and
\* whatever the user's permission strings and organisation.
C2_SuperUserAlwaysGranted ==
    (Evaluated /\ SuperUser(evalArgs.userRoles)) => evalRet = "grant"

C2_Witness ==
    /\ evalRet = "grant"
    /\ evalArgs.userRoles = {[name |-> "SYSTEM_ADMIN"]}
    /\ evalArgs.userPermissions = {}
    /\ evalArgs.required.organisationId = {"A"}
    /\ evalArgs.userOrgId = {"B"}

\* C3: for a user with no ADMIN or SYSTEM_ADMIN role, a PermissionCheck whose
\* organisationId differs from the user's organisationId is denied, even when
\* the matching permission string is held.
C3_CrossOrgDenied ==
    (/\ Evaluated
     /\ ~SuperUser(evalArgs.userRoles)
     /\ Present(evalArgs.required.organisationId)
     /\ evalArgs.required.organisationId # evalArgs.userOrgId)
        => evalRet = "deny"

\* C7: checkPermission returns exactly one of grant and deny for every input
\* and never raises; a held string that is not character for character one of
\* the four matching forms never produces a grant.
C7_TotalAndExactMatch ==
    Evaluated =>
        /\ evalRet \in {"grant", "deny"}
        /\ evalRet = "grant" =>
            \/ SuperUser(evalArgs.userRoles)
            \/ \E held \in evalArgs.userPermissions :
                    held \in MatchingForms(evalArgs.required)

C7_Witness ==
    /\ evalRet = "deny"
    /\ evalArgs.userRoles = {}
    /\ evalArgs.userPermissions = {"organisation.view ", "organisationview"}
    /\ evalArgs.required.resource = "organisation"
    /\ evalArgs.required.action = "view"

-----------------------------------------------------------------------------
(* Properties of the middleware, under Spec *)

Entries(name) == {i \in DOMAIN log : log[i].mw = name}

Rejected403(i) ==
    /\ ~log[i].next
    /\ i = Len(log)
    /\ pc = 0
    /\ res.sent = 1
    /\ res.status = 403
    /\ res.code = "FORBIDDEN"

\* the organisation a request targets: the route parameter when it is
\* non-empty, the body's organisationId otherwise
Requested ==
    IF Present(req.params.organisationId)
    THEN req.params.organisationId ELSE req.body.organisationId

\* C4: the isolation check denies when the user has no organisation and the
\* request targets one, denies when both are present and different, and allows
\* when both are absent or both are equal.
C4_IsolationRules ==
    \A i \in Entries("enforceOrgIsolation") :
        req.user # {} =>
            LET userOrgId == User(req).organisationId
            IN  /\ (~Present(userOrgId) /\ Present(Requested)) => Rejected403(i)
                /\ (/\ Present(userOrgId) /\ Present(Requested)
                    /\ userOrgId # Requested) => Rejected403(i)
                /\ (~Present(userOrgId) /\ ~Present(Requested)) => log[i].next
                /\ (Present(userOrgId) /\ userOrgId = Requested) => log[i].next

C4_Witness ==
    /\ Entries("enforceOrgIsolation") # {}
    /\ req.user # {}
    /\ User(req).organisationId = {"B"}
    /\ req.params.organisationId = {}
    /\ req.body.organisationId = {"A"}
    /\ res.status = 403
    /\ res.message = "Access denied: organisation isolation violation"

\* C5: on an organisation-scoped route, an authenticated request whose
\* :organisationId differs from the user's organisationId, or whose user has no
\* organisation, is answered 403 and never reaches the route handler, also
\* for a user with an ADMIN or SYSTEM_ADMIN role or the "*.*" permission.
C5_RouteIsolation ==
    (/\ stack \in OrgScopedRoutes
     /\ req.user # {}
     /\ User(req).organisationId # req.params.organisationId)
        => /\ Entries("handler") = {}
           /\ Entries("authorize") = {}
           /\ \A i \in Entries("enforceOrgIsolation") : Rejected403(i)
           /\ pc \in {0, 2}

C5_Witness ==
    /\ stack = RoutePatchOrg
    /\ req.user # {}
    /\ User(req).roles = {[name |-> "ADMIN"], [name |-> "SYSTEM_ADMIN"]}
    /\ User(req).permissions = {"*.*"}
    /\ User(req).organisationId = {"A"}
    /\ req.params.organisationId = {"B"}
    /\ res.status = 403
    /\ pc = 0

\* C6: on every organisation-scoped route the middleware run in the order
\* authenticate, enforceOrgIsolation, authorize, handler: the permission
\* evaluator is never invoked for a request the isolation check rejected, and
\* the handler never runs before both checks have passed.
C6_RouteOrder ==
    stack \in OrgScopedRoutes =>
        /\ \A i \in DOMAIN log : i < Len(log) => log[i].next
        /\ \A i \in Entries("enforceOrgIsolation") :
                \E j \in Entries("authenticate") : j < i
        /\ \A i \in DOMAIN log :
                (log[i].mw = "authorize" \/ log[i].evals > 0) =>
                    \E j \in Entries("enforceOrgIsolation") : j < i /\ log[j].next
        /\ \A i \in Entries("handler") :
                /\ \E j \in Entries("enforceOrgIsolation") : j < i /\ log[j].next
                /\ \E k \in Entries("authorize") : k < i /\ log[k].next

C6_Witness ==
    /\ stack = RouteInvite
    /\ Len(log) = 2
    /\ log[1].mw = "authenticate" /\ log[1].next
    /\ log[2].mw = "enforceOrgIsolation" /\ ~log[2].next
    /\ User(req).permissions = {"user.invite"}
    /\ pc = 0
    /\ res.status = 403

\* C8: the authorize middleware calls next() exactly when checkPermission
\* grants every permission of its list; at the first denied one it sends
\* 403 FORBIDDEN and does not call next(), so the handler does not run.
C8_AuthorizeAllOrForbidden ==
    \A i \in Entries("authorize") :
        req.user # {} =>
            LET required == stack[i].required
                granted(k) == checkPermission(required[k], User(req).permissions,
                                              User(req).roles,
                                              User(req).organisationId)
            IN  /\ log[i].next <=> \A k \in DOMAIN required : granted(k)
                /\ ~log[i].next =>
                    /\ Rejected403(i)
                    /\ Entries("handler") = {}
                    /\ ~granted(log[i].evals)
                    /\ \A k \in 1..(log[i].evals - 1) : granted(k)

C8_Witness ==
    /\ Entries("authorize") # {}
    /\ req.user # {}
    /\ Len(Guard(stack).required) = 2
    /\ Guard(stack).required[1] # Guard(stack).required[2]
    /\ User(req).permissions = {"organisation.view"}
    /\ User(req).roles = {}
    /\ res.status = 403
    /\ res.message = "Insufficient permissions: user.invite"

\* C9: with no user context on the request, authorize, enforceOrgIsolation and
\* requireOwnershipOrAdmin do not run their check: each answers with an
\* 'Authentication required' error response and does not call next().
C9_NoUserContextRejected ==
    \A i \in DOMAIN log :
        (/\ log[i].mw \in {"authorize", "enforceOrgIsolation",
                           "requireOwnershipOrAdmin"}
         /\ req.user = {})
            => /\ Rejected403(i)
               /\ res.message = "Authentication required"
               /\ log[i].evals = 0

C9_Witness ==
    /\ req.user = {}
    /\ Len(log) = 1
    /\ log[1].mw = "enforceOrgIsolation"
    /\ req.params.organisationId = {}
    /\ req.body.organisationId = {}
    /\ res.message = "Authentication required"

-----------------------------------------------------------------------------
(* Further properties of checkPermission, under SpecEval *)

\* C17: the decision of checkPermission does not depend on the organisation
\* identifiers: changing required.organisationId and userOrgId, and nothing
\* else, never changes the result.
C17_OrgIdsIrrelevant ==
    Evaluated =>
        \A o1, o2 \in OptOrgIds \cup {{""}} :
            (evalRet = "grant")
                <=> checkPermission(
                        [evalArgs.required EXCEPT !.organisationId = o1],
                        evalArgs.userPermissions, evalArgs.userRoles, o2)

C17_Witness ==
    /\ evalRet = "grant"
    /\ evalArgs.userRoles = {}
    /\ evalArgs.userPermissions = {"user.invite"}
    /\ evalArgs.required =
            [resource |-> "user", action |-> "invite", organisationId |-> {"A"}]
    /\ evalArgs.userOrgId = {"B"}

\* C18: checkPermission is monotone in what the user holds: once it grants a
\* check for permission set P and role set R, it grants the same check with
\* permission strings added to P and roles added to R.
C18_Monotone ==
    (Evaluated /\ evalRet = "grant") =>
        \A p1, p2 \in PermUniverse,
           moreRoles \in {{}} \cup {{r} : r \in Roles} \cup {Roles} :
            checkPermission(evalArgs.required,
                            evalArgs.userPermissions \cup {p1, p2},
                            evalArgs.userRoles \cup moreRoles,
                            evalArgs.userOrgId)

C18_Witness ==
    /\ evalRet = "grant"
    /\ evalArgs.userRoles = {[name |-> "ADMIN"]}
    /\ evalArgs.userPermissions = {}
    /\ evalArgs.required.resource = "user"

-----------------------------------------------------------------------------
(* Further properties of the middleware, under Spec *)

Last(q) == q[Len(q)]

\* a step in which authorize or enforceOrgIsolation runs
ChecksRun ==
    /\ Len(log') = Len(log) + 1
    /\ Last(log').mw \in {"authorize", "enforceOrgIsolation"}

\* C11: evaluating a permission check or an isolation check changes nothing:
\* after authorize (and the checkPermission calls it makes) or
\* enforceOrgIsolation runs, granting or denying, the user context, the
\* required PermissionChecks and the request's params and body are unchanged.
C11_ChecksChangeNothing ==
    [][ChecksRun => /\ req' = req
                    /\ stack' = stack
                    /\ authSvc' = authSvc]_vars

C11_Witness ==
    /\ stack = RouteGetOrg
    /\ Len(log) = 3
    /\ log[2].mw = "enforceOrgIsolation"
    /\ log[3].mw = "authorize" /\ log[3].evals = 1 /\ ~log[3].next
    /\ req.params.organisationId = {"A"}
    /\ req.body.organisationId = {"B"}

\* C16: authenticate answers every request that cannot be authenticated with
\* 401 UNAUTHORIZED and does not call next(): a missing or non-Bearer header,
\* a bearer token that fails verification, a token whose user no longer exists.
C16_Unauthenticated401 ==
    \A i \in Entries("authenticate") :
        ~log[i].next =>
            /\ res.status = 401
            /\ res.code = "UNAUTHORIZED"
            /\ pc = 0

\* C19: when the request names no target organisation (no route parameter and
\* no or an empty organisationId in the body), enforceOrgIsolation allows it
\* for every user; a route parameter, when present, decides instead of the
\* body's organisationId.
C19_NoTargetAllowed ==
    \A i \in Entries("enforceOrgIsolation") :
        req.user # {} =>
            /\ (~Present(req.params.organisationId)
                    /\ ~Present(req.body.organisationId)) => log[i].next
            /\ Present(req.params.organisationId) =>
                    (log[i].next
                        <=> User(req).organisationId = req.params.organisationId)

C19_Witness ==
    /\ Entries("enforceOrgIsolation") # {}
    /\ req.user # {}
    /\ User(req).organisationId = {"B"}
    /\ req.params.organisationId = {"B"}
    /\ req.body.organisationId = {"A"}
    /\ Entries("handler") # {}

Guards ==
    {i \in DOMAIN log : log[i].mw \in {"authenticate", "authorize",
                                        "requireOwnershipOrAdmin",
                                        "enforceOrgIsolation"}}

\* C20: every run of authenticate, authorize, requireOwnershipOrAdmin and
\* enforceOrgIsolation has exactly one outcome: next() is called once and the
\* middleware sends nothing, or it sends exactly one 401, 403 or 500 response
\* and does not call next().
C20_ExactlyOneOutcome ==
    /\ res.sent <= 1
    /\ \A i \in DOMAIN log : log[i].mw = stack[i].name
    /\ \A i \in Guards :
        /\ log[i].next => (i < Len(log) \/ (pc = i + 1 /\ res.sent = 0))
        /\ ~log[i].next =>
            /\ i = Len(log)
            /\ pc = 0
            /\ res.sent = 1
            /\ res.status \in {401, 403, 500}

C20_Witness ==
    /\ Len(log) = 2
    /\ log[1].mw = "authenticate" /\ log[1].next
    /\ log[2].mw = "requireOwnershipOrAdmin" /\ ~log[2].next
    /\ res.sent = 1
    /\ res.status = 403

-----------------------------------------------------------------------------
(* Two requests in flight *)

\* the decision a guard takes for request r when r is the only request: the
\* rules of authorize, enforceOrgIsolation and requireOwnershipOrAdmin over
\* r's own user, params and body
AloneNext(r, i) ==
    LET m == r.stack[i]
        u == User(r.req)
    IN  /\ r.req.user # {}
        /\ m.name = "authorize" =>
                \A k \in DOMAIN m.required :
                    checkPermission(m.required[k], u.permissions, u.roles,
                                    u.organisationId)
        /\ m.name = "enforceOrgIsolation" =>
                LET requested == IF Present(r.req.params[m.param])
                                 THEN r.req.params[m.param]
                                 ELSE r.req.body.organisationId
                IN  Present(requested) => u.organisationId = requested
        /\ m.name = "requireOwnershipOrAdmin" =>
                \/ hasAdminRole(u.roles)
                \/ r.req.params[m.param] = {u.id}

InFlight == {Current, other}

\* C12: with two requests in flight and their middleware interleaved in any
\* order, every guard that ran for a request took the decision the request's
\* own user, params and body call for, and the request carries the user its
\* own token authenticated, whatever the other request is and wherever it is.
C12_DecisionAsAlone ==
    \A r \in InFlight :
        /\ r.req.user \in {{}, r.authSvc.user}
        /\ \A i \in DOMAIN r.log :
            r.log[i].mw \in {"authorize", "enforceOrgIsolation",
                             "requireOwnershipOrAdmin"}
                => (r.log[i].next <=> AloneNext(r, i))

\* both requests have been through authorize of the same route, for different
\* users: one was let through, the other rejected
C12_Witness ==
    /\ stack = RouteGetOrg /\ other.stack = RouteGetOrg
    /\ req.user # {} /\ other.req.user # {} /\ req.user # other.req.user
    /\ \E i \in DOMAIN log : log[i].mw = "authorize" /\ log[i].next
    /\ \E i \in DOMAIN other.log :
        other.log[i].mw = "authorize" /\ ~other.log[i].next
    /\ pc > 0

-----------------------------------------------------------------------------
(* Lockout and sessions *)

\* C13: once five failed password verifications have accumulated with no good
\* login in between, the account is locked with an expiry at least one hour
\* after the fifth failure, and no login that starts before that hour is over
\* gets past the lock check.
C13_LockedAfterFiveFailures ==
    /\ hist.fails >= LockThreshold =>
        /\ db.user.accountLocked
        /\ \E t \in hist.fifthAt, until \in db.user.accountLockedUntil :
            until >= t + LockSeconds
    /\ \A c \in CallIds : calls[c].pc # "idle" => ~calls[c].mustReject

\* a call of refreshToken returns or throws in this step
RefreshDone ==
    /\ hist'.done = hist.done + 1
    /\ hist'.last.op = "refreshToken"

\* C14: refreshToken(t) throws 'Invalid refresh token' whenever logout(t, u)
\* was called before it by the user u the token is for, and no step takes a
\* revoked session back to not revoked.
C14_LogoutRevokes ==
    [][/\ (RefreshDone /\ hist'.last.token \in hist.loggedOut)
            => hist'.last.error = "Invalid refresh token"
       /\ \A s \in db.sessions :
            s.revoked => \E r \in db'.sessions : r.id = s.id /\ r.revoked]_vars

\* a refresh was refused for a token that matches a session still unexpired,
\* revoked by the logout before it
C14_Witness ==
    /\ hist.last.op = "refreshToken"
    /\ hist.last.error = "Invalid refresh token"
    /\ hist.last.token \in hist.loggedOut
    /\ verifyRefreshToken(hist.last.token, now)
    /\ \E s \in db.sessions :
        /\ s.refreshTokenHash = hashToken(hist.last.token)
        /\ s.revoked
        /\ s.expiresAt > now

\* C15: a refresh token that a successful refreshToken call has exchanged is
\* refused from then on, and the refresh token that call returned is accepted
\* while the session it was issued for is unexpired and not revoked.
C15_RefreshTokensRotate ==
    [][RefreshDone =>
        LET t == hist'.last.token
        IN  /\ (\E p \in hist.rotated : p.old = t)
                => hist'.last.error = "Invalid refresh token"
            /\ (\E p \in hist.rotated :
                    /\ p.new = t
                    /\ \E s \in db.sessions :
                        s.id = p.session /\ ~s.revoked /\ s.expiresAt > now)
                => hist'.last.error = ""]_vars

-----------------------------------------------------------------------------
(* Ownership *)

\* C21: requireOwnershipOrAdmin lets an authenticated request through exactly
\* when the user holds a role named ADMIN or SYSTEM_ADMIN or the named route
\* parameter is the user's own id; otherwise it answers 403 FORBIDDEN and
\* does not call next().
C21_OwnerOrAdminOnly ==
    \A i \in Entries("requireOwnershipOrAdmin") :
        req.user # {} =>
            /\ log[i].next <=>
                    \/ \E role \in User(req).roles :
                           role.name \in {"ADMIN", "SYSTEM_ADMIN"}
                    \/ req.params[stack[i].param] = {User(req).id}
            /\ ~log[i].next =>
                    /\ res.sent = 1 /\ res.status = 403 /\ res.code = "FORBIDDEN"
                    /\ pc = 0
                    /\ Entries("handler") = {}

\* an administrator was let through to a resource of another user
C21_Witness ==
    /\ \E i \in Entries("requireOwnershipOrAdmin") : log[i].next
    /\ req.user # {}
    /\ [name |-> "SYSTEM_ADMIN"] \in User(req).roles
    /\ req.params.userId = {"u2"}
    /\ User(req).id = "u1"
    /\ Entries("handler") # {}

-----------------------------------------------------------------------------
(* The failed-attempt counter *)

\* a login with the right password reaches its update of the users row
ResetDone ==
    \E c \in CallIds : calls[c].pc = "verified" /\ calls'[c].pc = "reset"

\* C22: a login with the right password on an account that is not locked
\* leaves failedLoginAttempts 0, accountLocked false and accountLockedUntil
\* null, and the counter and the lock never rest on failures from before the
\* last good login.
C22_GoodLoginResets ==
    [][/\ ResetDone => db'.user = UserRow(0, FALSE, {})
       /\ db'.user.failedLoginAttempts <= hist'.fails
       /\ db'.user.accountLocked => hist'.fails >= LockThreshold]_vars

\* C23: however the logins for the account overlap, failedLoginAttempts is
\* the number of failed password verifications since the last good login,
\* and the account is locked once that number has reached five.
C23_NoFailureLost ==
    /\ db.user.failedLoginAttempts = hist.fails
    /\ hist.fails >= LockThreshold => db.user.accountLocked

-----------------------------------------------------------------------------
(* The rate limiter's window *)

\* a call of checkRateLimit for user u returns in this step
CheckDone(u) ==
    /\ cliHist'.flip # cliHist.flip
    /\ cliHist'.last.fn = "checkRateLimit"
    /\ cliHist'.last.user = {u}

\* C24: for each user, in a window (from the call that began it up to the
\* first call made more than 60000 ms after that) checkRateLimit returns true
\* for the first ten calls and false for every further one, which leaves the
\* user's requestCount and windowStart as they were; a call with no window
\* yet or after the window has elapsed returns true and starts a window at
\* that moment with count 1.
C24_TenPerWindow ==
    [][\A u \in ClientUsers :
        CheckDone(u) =>
            LET inWindow == \E start \in cliHist.window[u] :
                                clock - start <= RATE_LIMIT_WINDOW_MS
            IN  /\ cliHist'.granted[u] <= MAX_REQUESTS_PER_WINDOW
                /\ inWindow =>
                    /\ cliHist'.last.ret <=>
                            cliHist.granted[u] < MAX_REQUESTS_PER_WINDOW
                    /\ ~cliHist'.last.ret =>
                            rateLimitCache'[u] = rateLimitCache[u]
                /\ ~inWindow =>
                    /\ cliHist'.last.ret
                    /\ rateLimitCache'[u] =
                            {[requestCount |-> 1, windowStart |-> clock]}]_vars

\* the eleventh call of a window was refused at the window's last millisecond
C24_Witness ==
    /\ cliHist.last = [fn |-> "checkRateLimit", user |-> {"u1"}, ret |-> FALSE]
    /\ cliHist.granted["u1"] = MAX_REQUESTS_PER_WINDOW
    /\ cliHist.window["u1"] = {0}
    /\ clock = RATE_LIMIT_WINDOW_MS
    /\ rateLimitCache["u1"] =
            {[requestCount |-> MAX_REQUESTS_PER_WINDOW, windowStart |-> 0]}

-----------------------------------------------------------------------------
(* Credits *)

Consuming == {c \in ConsumerIds : consumers[c].pc # "idle"}

\* C25: however the calls of consumeCredit overlap, no more of them return
\* true than there were credits at the start, and once they have all
\* returned each true has taken one from credits_remaining and added one to
\* credits_used.
C25_CreditsNeverOverspent ==
    /\ cliHist.trues <= cliHist.atStart
    /\ Consuming = {} =>
        /\ user_credits.credits_remaining = cliHist.atStart - cliHist.trues
        /\ user_credits.credits_used = cliHist.trues

-----------------------------------------------------------------------------
(* Friend requests and friendships *)

PendingRequests == {r \in friend_requests : r.status = "pending"}

\* C26: whatever calls of send_, accept_ and reject_friend_request were made,
\* no two pending requests join the same two users, and no pending request
\* joins two users who are friends or a user to themselves.
C26_NoDuplicateRequests ==
    /\ \A r, q \in PendingRequests :
            {r.sender_id, r.receiver_id} = {q.sender_id, q.receiver_id} => r = q
    /\ \A r \in PendingRequests :
            /\ r.sender_id # r.receiver_id
            /\ ~are_friends(r.sender_id, r.receiver_id)

\* the pending request from p_sender_id to the caller, if the call is one of
\* accept_friend_request
AcceptedNow ==
    IF sqlRet'.fn = "accept_friend_request"
    THEN {r \in PendingRequests :
            r.sender_id = sqlRet'.arg /\ {r.receiver_id} = sqlRet'.uid}
    ELSE {}

\* C27: a friends row appears only in a call of accept_friend_request by the
\* receiver of a request pending at that moment, as the one row of the pair
\* with the smaller id in user_id; an accepted request stays accepted; and a
\* call of accept_friend_request that finds no such request changes nothing
\* and reports failure.
C27_FriendshipOnlyByAccept ==
    [][/\ \A f \in friends' \ friends :
            /\ sqlRet'.success
            /\ \E r \in AcceptedNow :
                   {f.user_id, f.friend_id} = {r.sender_id, r.receiver_id}
       /\ \A f, g \in friends' :
            /\ f.user_id < f.friend_id
            /\ {f.user_id, f.friend_id} = {g.user_id, g.friend_id} => f = g
       /\ \A r \in friend_requests :
            r.status = "accepted" => r \in friend_requests'
       /\ (sqlRet'.fn = "accept_friend_request" /\ AcceptedNow = {})
            => /\ ~sqlRet'.success
               /\ friend_requests' = friend_requests
               /\ friends' = friends
       /\ (sqlRet'.fn = "accept_friend_request" /\ AcceptedNow # {})
            => /\ sqlRet'.success
               /\ \A r \in AcceptedNow :
                    /\ [r EXCEPT !.status = "accepted"] \in friend_requests'
                    /\ are_friends(r.sender_id, r.receiver_id)']_vars

====
